---- MODULE Spec2Model ----
(***************************************************************************)
(* Model of pkg/provider/provider.go: the content transformation pipeline *)
(* of the Azure Key Vault provider (format / encoding validation, content *)
(* decoding, PKCS#12 to PEM conversion, certificate chain reconstruction  *)
(* and the per-object loop of MountSecretsStoreObjectContent).            *)
(*                                                                         *)
(* Go strings are sequences of one-character strings, so that letter case *)
(* is visible to the model.  A Go error is a sequence of frames, the      *)
(* outermost wrap first; the nil error is the empty sequence.             *)
(***************************************************************************)
EXTENDS Integers, Sequences, FiniteSets, TLC

VARIABLES
    call,               \* the function under call and its arguments
    ret,                \* what the call returned (NotReturned before it ran)
    ConstructPEMChain,  \* the process-wide -construct-pem-chain flag
    DriverWriteSecrets, \* the process-wide -driver-write-secrets flag
    pc,                 \* where MountSecretsStoreObjectContent stands
    objectsLeft,        \* the objects its loop has still to go through
    files,              \* its map of file name to content
    objectVersionMap,   \* its map of object UID to version
    written,            \* the files os.WriteFile has put under targetPath
    processed           \* the objects its loop has taken from the list, in the
                        \* order it took them, and what it did with each

flags == <<ConstructPEMChain, DriverWriteSecrets>>

mountVars == <<pc, objectsLeft, files, objectVersionMap, written, processed>>

vars == <<call, ret, flags, mountVars>>

(***************************************************************************)
(* Bounds of the model.                                                    *)
(***************************************************************************)
MaxCerts == 3       \* certificates handed to fetchCertChains
MaxKeyId == 3       \* key identifiers are 0 .. MaxKeyId, 0 the empty one
MaxBlocks == 3      \* PEM blocks in a PKCS#12 container
MaxPfxKeyId == 1    \* key identifiers of the certificates in a container
MaxContentLen == 4  \* characters of a fetched secret value
MaxObjects == 2     \* objects of one mount request

(***************************************************************************)
(* Errors.                                                                 *)
(***************************************************************************)
NilError == <<>>

Errorf(msg) == <<[msg |-> msg, obj |-> <<>>]>>

\* errors.Wrap
Wrap(err, msg) == <<[msg |-> msg, obj |-> <<>>]>> \o err

wrapObjectTypeError(err, objectType, objectName, objectVersion) ==
    <<[msg |-> "failed to get objectType, objectName, objectVersion",
       obj |-> <<objectType, objectName, objectVersion>>]>> \o err

NotReturned == [returned |-> FALSE]

(***************************************************************************)
(* Strings.                                                                *)
(***************************************************************************)
LowerLetters == <<"a", "b", "c", "d", "e", "f", "g", "h", "i", "j", "k", "l", "m",
                  "n", "o", "p", "q", "r", "s", "t", "u", "v", "w", "x", "y", "z">>

UpperLetters == <<"A", "B", "C", "D", "E", "F", "G", "H", "I", "J", "K", "L", "M",
                  "N", "O", "P", "Q", "R", "S", "T", "U", "V", "W", "X", "Y", "Z">>

\* the case folding of one ASCII character
FoldChar(c) ==
    IF \E i \in 1 .. Len(UpperLetters) : UpperLetters[i] = c
    THEN LowerLetters[CHOOSE i \in 1 .. Len(UpperLetters) : UpperLetters[i] = c]
    ELSE c

\* strings.EqualFold, on ASCII strings
EqualFold(s, t) ==
    /\ Len(s) = Len(t)
    /\ \A i \in 1 .. Len(s) : FoldChar(s[i]) = FoldChar(t[i])

VaultObjectTypeSecret == <<"s", "e", "c", "r", "e", "t">>

VaultObjectTypeKey == <<"k", "e", "y">>

VaultObjectTypeCertificate == <<"c", "e", "r", "t">>

objectFormatPEM == <<"p", "e", "m">>

objectFormatPFX == <<"p", "f", "x">>

objectEncodingHex == <<"h", "e", "x">>

objectEncodingBase64 == <<"b", "a", "s", "e", "6", "4">>

objectEncodingUtf8 == <<"u", "t", "f", "-", "8">>

(***************************************************************************)
(* validateObjectFormat, validateObjectEncoding, getContentBytes.          *)
(***************************************************************************)
validateObjectFormat(objectFormat, objectType) ==
    IF Len(objectFormat) = 0 THEN NilError
    ELSE IF ~EqualFold(objectFormat, objectFormatPEM) /\ ~EqualFold(objectFormat, objectFormatPFX)
         THEN Errorf("invalid objectFormat, should be PEM or PFX")
    ELSE IF objectFormat = objectFormatPFX /\ objectType # VaultObjectTypeSecret
         THEN Errorf("PFX format only supported for objectType: secret")
    ELSE NilError

\* validateObjectEncoding without the test of the object type
validateObjectEncoding_AnyType(objectEncoding, objectType) ==
    IF Len(objectEncoding) = 0 THEN NilError
    ELSE IF /\ ~EqualFold(objectEncoding, objectEncodingHex)
            /\ ~EqualFold(objectEncoding, objectEncodingBase64)
            /\ ~EqualFold(objectEncoding, objectEncodingUtf8)
         THEN Errorf("invalid objectEncoding, should be hex, base64 or utf-8")
    ELSE NilError

validateObjectEncoding(objectEncoding, objectType) ==
    IF Len(objectEncoding) = 0 THEN NilError
    ELSE IF objectType # VaultObjectTypeSecret
         THEN Errorf("objectEncoding only supported for objectType: secret")
    ELSE IF /\ ~EqualFold(objectEncoding, objectEncodingHex)
            /\ ~EqualFold(objectEncoding, objectEncodingBase64)
            /\ ~EqualFold(objectEncoding, objectEncodingUtf8)
         THEN Errorf("invalid objectEncoding, should be hex, base64 or utf-8")
    ELSE NilError

(***************************************************************************)
(* A string or byte slice that may hold certificate material has three    *)
(* parts: text, its characters (bytes); pem, the PEM blocks it spells     *)
(* when it is a PEM document (its text is then cut down to the leading    *)
(* dash of the armour); pfx, the PKCS#12 structure its text is the base64 *)
(* form of.                                                                *)
(***************************************************************************)
NoPfx == [pkcs12 |-> FALSE, blocks |-> <<>>]

Text(chars) == [text |-> chars, pem |-> <<>>, pfx |-> NoPfx]

\* string(pemData)
PemString(pemData) ==
    [text |-> IF pemData = <<>> THEN <<>> ELSE <<"-">>, pem |-> pemData, pfx |-> NoPfx]

\* the characters a fetched value is made of in this model
ContentChars == {"4", "Q", "="}

\* the byte of an ASCII character
ByteOf(c) == CASE c = "4" -> 52 [] c = "Q" -> 81 [] c = "=" -> 61 [] c = "-" -> 45

\* []byte(content)
BytesOf(content) ==
    [content EXCEPT !.text = [i \in 1 .. Len(content.text) |-> ByteOf(content.text[i])]]

\* the byte slice a decoder returns
Decoded(content, decoding) ==
    [bytes |-> [text |-> decoding.bytes, pem |-> <<>>, pfx |-> content.pfx],
     err |-> decoding.err]

\* the value of a character in the standard base64 alphabet, -1 outside it
Base64Value(c) == CASE c = "4" -> 56 [] c = "Q" -> 16 [] OTHER -> -1

\* the value of a hexadecimal digit, -1 for any other character
fromHexChar(c) == CASE c = "4" -> 4 [] OTHER -> -1

RECURSIVE StdDecode(_, _)
\* base64.StdEncoding.DecodeString: four characters at a time, padding only
\* at the end; an error comes with the bytes decoded before it
StdDecode(s, dbuf) ==
    IF s = <<>> THEN [bytes |-> dbuf, err |-> NilError]
    ELSE IF Len(s) < 4 THEN [bytes |-> dbuf, err |-> Errorf("illegal base64 data")]
    ELSE LET v1 == Base64Value(s[1])
             v2 == Base64Value(s[2])
             v3 == Base64Value(s[3])
             v4 == Base64Value(s[4])
             last == Len(s) = 4
             b1 == v1 * 4 + v2 \div 16
             b2 == (v2 % 16) * 16 + v3 \div 4
             b3 == (v3 % 4) * 64 + v4
         IN  IF v1 < 0 \/ v2 < 0 THEN [bytes |-> dbuf, err |-> Errorf("illegal base64 data")]
             ELSE IF v3 >= 0 /\ v4 >= 0
                  THEN StdDecode(SubSeq(s, 5, Len(s)), dbuf \o <<b1, b2, b3>>)
             ELSE IF last /\ s[3] = "=" /\ s[4] = "="
                  THEN [bytes |-> dbuf \o <<b1>>, err |-> NilError]
             ELSE IF last /\ v3 >= 0 /\ s[4] = "="
                  THEN [bytes |-> dbuf \o <<b1, b2>>, err |-> NilError]
             ELSE [bytes |-> dbuf, err |-> Errorf("illegal base64 data")]

RECURSIVE HexDecode(_, _)
\* hex.DecodeString: two digits at a time; an error comes with the bytes
\* decoded before it
HexDecode(s, dst) ==
    IF s = <<>> THEN [bytes |-> dst, err |-> NilError]
    ELSE IF Len(s) = 1
         THEN IF fromHexChar(s[1]) < 0
              THEN [bytes |-> dst, err |-> Errorf("encoding/hex: invalid byte")]
              ELSE [bytes |-> dst, err |-> Errorf("encoding/hex: odd length hex string")]
    ELSE IF fromHexChar(s[1]) < 0 \/ fromHexChar(s[2]) < 0
         THEN [bytes |-> dst, err |-> Errorf("encoding/hex: invalid byte")]
    ELSE HexDecode(SubSeq(s, 3, Len(s)), Append(dst, fromHexChar(s[1]) * 16 + fromHexChar(s[2])))

\* getContentBytes without the test of the object type
getContentBytes_AnyType(content, objectType, objectEncoding) ==
    IF Len(objectEncoding) = 0 \/ EqualFold(objectEncoding, objectEncodingUtf8)
    THEN [bytes |-> BytesOf(content), err |-> NilError]
    ELSE IF EqualFold(objectEncoding, objectEncodingBase64)
         THEN Decoded(content, StdDecode(content.text, <<>>))
    ELSE IF EqualFold(objectEncoding, objectEncodingHex)
         THEN Decoded(content, HexDecode(content.text, <<>>))
    ELSE [bytes |-> Text(<<>>),
          err |-> Errorf("invalid objectEncoding. Should be utf-8, base64, or hex")]

getContentBytes(content, objectType, objectEncoding) ==
    IF \/ ~EqualFold(objectType, VaultObjectTypeSecret)
       \/ Len(objectEncoding) = 0
       \/ EqualFold(objectEncoding, objectEncodingUtf8)
    THEN [bytes |-> BytesOf(content), err |-> NilError]
    ELSE IF EqualFold(objectEncoding, objectEncodingBase64)
         THEN Decoded(content, StdDecode(content.text, <<>>))
    ELSE IF EqualFold(objectEncoding, objectEncodingHex)
         THEN Decoded(content, HexDecode(content.text, <<>>))
    ELSE [bytes |-> Text(<<>>),
          err |-> Errorf("invalid objectEncoding. Should be utf-8, base64, or hex")]

(***************************************************************************)
(* PEM blocks and DER payloads.  A certificate's DER is abstracted to the *)
(* two key identifiers the chain construction reads; "bad" is a payload   *)
(* x509.ParseCertificate rejects.                                          *)
(***************************************************************************)
certificateType == "CERTIFICATE"

KeyIds == 0 .. MaxKeyId

\* the DER of a certificate with the given key identifiers
CertOf(ski, aki) ==
    [kind |-> "cert", key |-> "none", params |-> <<>>,
     SubjectKeyId |-> ski, AuthorityKeyId |-> aki]

CertDER == {CertOf(ski, aki) : ski \in KeyIds, aki \in KeyIds}

BadDER ==
    [kind |-> "bad", key |-> "none", params |-> <<>>, SubjectKeyId |-> 0, AuthorityKeyId |-> 0]

\* the DER of a private key: kind is its encoding, key the key it holds
KeyOf(kind, key) ==
    [kind |-> kind, key |-> key, params |-> <<>>, SubjectKeyId |-> 0, AuthorityKeyId |-> 0]

NoHeaders == {}

\* pem.EncodeToMemory: the textual form of one block, as a one-element stream
EncodeToMemory(block) == <<[Type |-> block.Type, Headers |-> block.Headers, Bytes |-> block.Bytes]>>

\* x509.ParseCertificate
ParseCertificate(der) ==
    IF der.kind = "cert"
    THEN [cert |-> [Raw |-> der, SubjectKeyId |-> der.SubjectKeyId,
                    AuthorityKeyId |-> der.AuthorityKeyId],
          err |-> NilError]
    ELSE [cert |-> [Raw |-> der, SubjectKeyId |-> 0, AuthorityKeyId |-> 0],
          err |-> Errorf("x509: malformed certificate")]

(***************************************************************************)
(* fetchCertChains.  A node's parent is an index into nodes, 0 for nil.   *)
(***************************************************************************)
RECURSIVE ParseNodes(_, _)
\* the decode loop: the nodes of the blocks of data, or the first parse error
ParseNodes(data, nodes) ==
    IF data = <<>>
    THEN [nodes |-> nodes, err |-> NilError]
    ELSE LET block == Head(data)
             rest == Tail(data)
             parsed == ParseCertificate(block.Bytes)
         IN  IF parsed.err # NilError
             THEN [nodes |-> nodes, err |-> parsed.err]
             ELSE ParseNodes(rest, Append(nodes,
                      [cert |-> parsed.cert, parent |-> 0, isParent |-> FALSE]))

RECURSIVE LinkInner_NoSelfSkip(_, _, _)
\* LinkInner without the i == j test
LinkInner_NoSelfSkip(nodes, i, j) ==
    IF j > Len(nodes)
    THEN nodes
    ELSE IF nodes[i].cert.AuthorityKeyId = nodes[j].cert.SubjectKeyId
         THEN [nodes EXCEPT ![j].isParent = TRUE, ![i].parent = j]
         ELSE LinkInner_NoSelfSkip(nodes, i, j + 1)

RECURSIVE LinkInner_NoBreak(_, _, _)
\* LinkInner without the break after a match
LinkInner_NoBreak(nodes, i, j) ==
    IF j > Len(nodes)
    THEN nodes
    ELSE IF i = j
         THEN LinkInner_NoBreak(nodes, i, j + 1)
         ELSE IF nodes[i].cert.AuthorityKeyId = nodes[j].cert.SubjectKeyId
              THEN LinkInner_NoBreak([nodes EXCEPT ![j].isParent = TRUE, ![i].parent = j],
                                     i, j + 1)
              ELSE LinkInner_NoBreak(nodes, i, j + 1)

RECURSIVE LinkInner(_, _, _)
\* the inner loop over j for a fixed i
LinkInner(nodes, i, j) ==
    IF j > Len(nodes)
    THEN nodes
    ELSE IF i = j
         THEN LinkInner(nodes, i, j + 1)
         ELSE IF nodes[i].cert.AuthorityKeyId = nodes[j].cert.SubjectKeyId
              THEN [nodes EXCEPT ![j].isParent = TRUE, ![i].parent = j]
              ELSE LinkInner(nodes, i, j + 1)

RECURSIVE LinkOuter(_, _)
\* the outer loop over i
LinkOuter(nodes, i) ==
    IF i > Len(nodes)
    THEN nodes
    ELSE LinkOuter(LinkInner(nodes, i, 1), i + 1)

\* FindLeaf taking the first node whatever its isParent flag
FindLeaf_FirstNode(nodes, i) ==
    IF i > Len(nodes) THEN 0 ELSE i

\* FindLeaf testing the flag the wrong way round
FindLeaf_FirstParent(nodes, i) ==
    IF \E k \in i .. Len(nodes) : nodes[k].isParent
    THEN CHOOSE k \in i .. Len(nodes) :
             nodes[k].isParent /\ \A m \in i .. k - 1 : ~nodes[m].isParent
    ELSE 0

RECURSIVE FindLeaf(_, _)
\* the first node that is nobody's parent, 0 when there is none
FindLeaf(nodes, i) ==
    IF i > Len(nodes)
    THEN 0
    ELSE IF ~nodes[i].isParent THEN i ELSE FindLeaf(nodes, i + 1)

RECURSIVE Walk_EarlyGuard(_, _, _, _)
\* Walk with the guard written >= for >
Walk_EarlyGuard(nodes, leaf, processedNodes, newCertChain) ==
    IF leaf = 0
    THEN [newCertChain |-> newCertChain, processedNodes |-> processedNodes, cycle |-> FALSE]
    ELSE IF processedNodes + 1 >= Len(nodes)
         THEN [newCertChain |-> newCertChain, processedNodes |-> processedNodes + 1,
               cycle |-> TRUE]
         ELSE Walk_EarlyGuard(nodes, nodes[leaf].parent, processedNodes + 1,
                              Append(newCertChain, nodes[leaf].cert))

RECURSIVE Walk(_, _, _, _)
\* the walk along the parent links, counting the processed nodes
Walk(nodes, leaf, processedNodes, newCertChain) ==
    IF leaf = 0
    THEN [newCertChain |-> newCertChain, processedNodes |-> processedNodes, cycle |-> FALSE]
    ELSE IF processedNodes + 1 > Len(nodes)
         THEN [newCertChain |-> newCertChain, processedNodes |-> processedNodes + 1,
               cycle |-> TRUE]
         ELSE Walk(nodes, nodes[leaf].parent, processedNodes + 1,
                   Append(newCertChain, nodes[leaf].cert))

RECURSIVE EncodeChain(_, _)
\* the final loop: one header-free CERTIFICATE block per certificate of the chain
EncodeChain(newCertChain, pemData) ==
    IF newCertChain = <<>>
    THEN pemData
    ELSE EncodeChain(Tail(newCertChain),
             pemData \o EncodeToMemory([Type |-> certificateType, Headers |-> NoHeaders,
                                        Bytes |-> Head(newCertChain).Raw]))

fetchCertChains(data) ==
    LET pemData == <<>>
        parsed == ParseNodes(data, <<>>)
    IN  IF parsed.err # NilError
        THEN [data |-> pemData, err |-> parsed.err]
        ELSE LET nodes == LinkOuter(parsed.nodes, 1)
                 leaf == FindLeaf(nodes, 1)
             IN  IF leaf = 0
                 THEN [data |-> <<>>, err |-> Errorf("no leaf found")]
                 ELSE LET walk == Walk(nodes, leaf, 0, <<>>)
                      IN  IF walk.cycle
                          THEN [data |-> pemData,
                                err |-> Errorf("constructing chain resulted in cycle")]
                          ELSE [data |-> EncodeChain(walk.newCertChain, pemData),
                                err |-> NilError]

(***************************************************************************)
(* decodePKCS12.  The decoded bytes are abstracted to whether they are a  *)
(* PKCS#12 container that opens with the empty password, and the PEM      *)
(* blocks pkcs12.ToPEM makes of it.                                        *)
(***************************************************************************)
\* base64.StdEncoding.DecodeString on the secret value
DecodePfxValue(value) ==
    LET decoding == StdDecode(value.text, <<>>)
    IN  IF decoding.err = NilError
        THEN [pfxRaw |-> value.pfx, err |-> NilError]
        ELSE [pfxRaw |-> NoPfx, err |-> decoding.err]

\* pkcs12.ToPEM(pfxRaw, "")
ToPEM(pfxRaw) ==
    IF pfxRaw.pkcs12
    THEN [pemBlock |-> pfxRaw.blocks, err |-> NilError]
    ELSE [pemBlock |-> <<>>, err |-> Errorf("pkcs12: error reading P12 data")]

parsePrivateKey(block) ==
    IF block.kind = "pkcs1" THEN [key |-> block.key, err |-> NilError]
    ELSE IF block.kind = "pkcs8" THEN [key |-> block.key, err |-> NilError]
    ELSE IF block.kind = "ec" THEN [key |-> block.key, err |-> NilError]
    ELSE [key |-> "none", err |-> Errorf("failed to parse key for type pkcs1, pkcs8 or ec")]

\* x509.MarshalPKCS8PrivateKey
MarshalPKCS8PrivateKey(key) == KeyOf("pkcs8", key)

RECURSIVE ConvertBlocks_OneStream(_, _, _)
\* ConvertBlocks appending keys and certificates to one stream, in container order
ConvertBlocks_OneStream(pemBlock, pemKeyData, pemCertData) ==
    IF pemBlock = <<>>
    THEN [pemKeyData |-> pemKeyData, pemCertData |-> pemCertData, err |-> NilError]
    ELSE LET block == [Head(pemBlock) EXCEPT !.Headers = NoHeaders]
         IN  IF block.Type = certificateType
             THEN ConvertBlocks_OneStream(Tail(pemBlock),
                      pemKeyData \o EncodeToMemory(block), pemCertData)
             ELSE LET parsed == parsePrivateKey(block.Bytes)
                  IN  IF parsed.err # NilError
                      THEN [pemKeyData |-> pemKeyData, pemCertData |-> pemCertData,
                            err |-> parsed.err]
                      ELSE ConvertBlocks_OneStream(Tail(pemBlock),
                               pemKeyData \o EncodeToMemory(
                                   [block EXCEPT !.Bytes = MarshalPKCS8PrivateKey(parsed.key)]),
                               pemCertData)

RECURSIVE ConvertBlocks(_, _, _)
\* the loop over the blocks: keys to pemKeyData, certificates to pemCertData
ConvertBlocks(pemBlock, pemKeyData, pemCertData) ==
    IF pemBlock = <<>>
    THEN [pemKeyData |-> pemKeyData, pemCertData |-> pemCertData, err |-> NilError]
    ELSE LET block == [Head(pemBlock) EXCEPT !.Headers = NoHeaders]
         IN  IF block.Type = certificateType
             THEN ConvertBlocks(Tail(pemBlock), pemKeyData,
                                pemCertData \o EncodeToMemory(block))
             ELSE LET parsed == parsePrivateKey(block.Bytes)
                  IN  IF parsed.err # NilError
                      THEN [pemKeyData |-> pemKeyData, pemCertData |-> pemCertData,
                            err |-> parsed.err]
                      ELSE ConvertBlocks(Tail(pemBlock),
                               pemKeyData \o EncodeToMemory(
                                   [block EXCEPT !.Bytes = MarshalPKCS8PrivateKey(parsed.key)]),
                               pemCertData)

\* decodePKCS12 returning what it has converted so far along with an error
decodePKCS12_PartialOnError(value, constructPEMChain) ==
    LET decoded == DecodePfxValue(value)
        pem == ToPEM(decoded.pfxRaw)
        converted == ConvertBlocks(pem.pemBlock, <<>>, <<>>)
        chain == fetchCertChains(converted.pemCertData)
    IN  IF decoded.err # NilError THEN [content |-> <<>>, err |-> decoded.err]
        ELSE IF pem.err # NilError THEN [content |-> <<>>, err |-> pem.err]
        ELSE IF converted.err # NilError
             THEN [content |-> converted.pemKeyData \o converted.pemCertData,
                   err |-> converted.err]
        ELSE IF constructPEMChain /\ chain.err # NilError
             THEN [content |-> converted.pemKeyData, err |-> chain.err]
        ELSE [content |-> converted.pemKeyData \o
                          (IF constructPEMChain THEN chain.data ELSE converted.pemCertData),
              err |-> NilError]

decodePKCS12(value, constructPEMChain) ==
    LET decoded == DecodePfxValue(value)
        pem == ToPEM(decoded.pfxRaw)
        converted == ConvertBlocks(pem.pemBlock, <<>>, <<>>)
        chain == fetchCertChains(converted.pemCertData)
    IN  IF decoded.err # NilError THEN [content |-> <<>>, err |-> decoded.err]
        ELSE IF pem.err # NilError THEN [content |-> <<>>, err |-> pem.err]
        ELSE IF converted.err # NilError THEN [content |-> <<>>, err |-> converted.err]
        ELSE IF constructPEMChain /\ chain.err # NilError
             THEN [content |-> <<>>, err |-> chain.err]
        ELSE [content |-> converted.pemKeyData \o
                          (IF constructPEMChain THEN chain.data ELSE converted.pemCertData),
              err |-> NilError]

(***************************************************************************)
(* Helpers of the mount loop.                                              *)
(***************************************************************************)
RECURSIVE Split(_, _, _)
\* strings.Split(str, sep) for a one-character sep; part is the piece under way
Split(str, sep, part) ==
    IF str = <<>> THEN <<part>>
    ELSE IF Head(str) = sep THEN <<part>> \o Split(Tail(str), sep, <<>>)
    ELSE Split(Tail(str), sep, Append(part, Head(str)))

\* strings.Contains(str, "..")
ContainsDotDot(str) == \E i \in 1 .. Len(str) - 1 : str[i] = "." /\ str[i + 1] = "."

getObjectVersion(id) ==
    LET splitID == Split(id, "/", <<>>)
    IN  splitID[Len(splitID)]

getObjectUID(objectName, objectType) == objectType \o <<"/">> \o objectName

\* filepath.IsAbs, on a Unix path
IsAbs(path) == Len(path) > 0 /\ path[1] = "/"

\* validateFileName without the two tests for ".."
validateFileName_NoDotDot(fileName) ==
    IF Len(fileName) = 0 THEN Errorf("file name must not be empty")
    ELSE IF IsAbs(fileName) THEN Errorf("file name must be a relative path")
    ELSE NilError

validateFileName(fileName) ==
    IF Len(fileName) = 0 THEN Errorf("file name must not be empty")
    ELSE IF IsAbs(fileName) THEN Errorf("file name must be a relative path")
    ELSE LET parts == Split(fileName, "/", <<>>)
         IN  IF \E k \in 1 .. Len(parts) : parts[k] = <<".", ".">>
             THEN Errorf("file name must not contain '..'")
             ELSE IF ContainsDotDot(fileName)
                  THEN Errorf("file name must not contain '..'")
                  ELSE NilError

\* the characters of ^[-A-Za-z0-9]+$ among those a vault name is made of here
VaultNameChars == {"k", "v", "1", "-"}

getVaultURL(KeyvaultName) ==
    IF Len(KeyvaultName) < 3 \/ Len(KeyvaultName) > 24
    THEN Errorf("Invalid vault name, must be between 3 and 24 chars")
    ELSE IF \E k \in 1 .. Len(KeyvaultName) : KeyvaultName[k] \notin VaultNameChars
         THEN Errorf("Invalid vault name, must match [-a-zA-Z0-9]{3,24}")
         ELSE NilError

\* the value of a character in the URL-safe base64 alphabet, -1 outside it
Base64URLValue(c) == CASE c = "4" -> 56 [] c = "Q" -> 16 [] OTHER -> -1

RECURSIVE RawURLDecode(_, _)
\* base64.RawURLEncoding.DecodeString: no padding
RawURLDecode(str, dbuf) ==
    LET v(k) == Base64URLValue(str[k])
        corrupt == [bytes |-> dbuf, err |-> Errorf("illegal base64 data")]
    IN  IF str = <<>> THEN [bytes |-> dbuf, err |-> NilError]
        ELSE IF Len(str) = 1 THEN corrupt
        ELSE IF v(1) < 0 \/ v(2) < 0 THEN corrupt
        ELSE IF Len(str) = 2
             THEN [bytes |-> Append(dbuf, v(1) * 4 + v(2) \div 16), err |-> NilError]
        ELSE IF v(3) < 0 THEN corrupt
        ELSE IF Len(str) = 3
             THEN [bytes |-> dbuf \o <<v(1) * 4 + v(2) \div 16, (v(2) % 16) * 16 + v(3) \div 4>>,
                   err |-> NilError]
        ELSE IF v(4) < 0 THEN corrupt
        ELSE RawURLDecode(SubSeq(str, 5, Len(str)),
                 dbuf \o <<v(1) * 4 + v(2) \div 16, (v(2) % 16) * 16 + v(3) \div 4,
                           (v(3) % 4) * 64 + v(4)>>)

RECURSIVE SetBytes(_, _)
\* new(big.Int).SetBytes: the big-endian value of the bytes
SetBytes(bytes, acc) ==
    IF bytes = <<>> THEN acc ELSE SetBytes(Tail(bytes), acc * 256 + Head(bytes))

\* the DER x509.MarshalPKIXPublicKey makes of a public key
PublicKeyDER(key, params) ==
    [kind |-> "pkix", key |-> key, params |-> params, SubjectKeyId |-> 0, AuthorityKeyId |-> 0]

\* getCurve taking every name for P-256
getCurve_AnyCurve(crv) == [curve |-> "P-256", err |-> NilError]

getCurve(crv) ==
    IF crv = "P-256" THEN [curve |-> "P-256", err |-> NilError]
    ELSE IF crv = "P-384" THEN [curve |-> "P-384", err |-> NilError]
    ELSE IF crv = "P-521" THEN [curve |-> "P-521", err |-> NilError]
    ELSE [curve |-> "", err |-> Errorf("curve is not suppported")]

certTypePem == "application/x-pem-file"

certTypePfx == "application/x-pkcs12"

NoContent == [content |-> Text(<<>>), version |-> <<>>]

\* what GetKeyVaultObjectContent returns on the error err
Failed(err) == NoContent @@ [err |-> err]

\* the key branch once the key bundle is there
PublicKeyContent(kvObject, Key) ==
    LET wrap(err) == Failed(wrapObjectTypeError(err, kvObject.ObjectType, kvObject.ObjectName,
                                                 kvObject.ObjectVersion))
        version == getObjectVersion(Key.Kid)
        pemOf(der) ==
            [content |-> PemString(EncodeToMemory(
                             [Type |-> "PUBLIC KEY", Headers |-> NoHeaders, Bytes |-> der])),
             version |-> version, err |-> NilError]
    IN  IF Key.Kty \in {"RSA", "RSA-HSM"}
        THEN LET nb == RawURLDecode(Key.N, <<>>)
                 eb == RawURLDecode(Key.E, <<>>)
             IN  IF nb.err # NilError THEN wrap(nb.err)
                 ELSE IF eb.err # NilError THEN wrap(eb.err)
                 ELSE pemOf(PublicKeyDER("rsa", <<SetBytes(nb.bytes, 0), SetBytes(eb.bytes, 0)>>))
        ELSE IF Key.Kty \in {"EC", "EC-HSM"}
        THEN LET xb == RawURLDecode(Key.X, <<>>)
                 yb == RawURLDecode(Key.Y, <<>>)
                 crv == getCurve(Key.Crv)
             IN  IF xb.err # NilError THEN wrap(xb.err)
                 ELSE IF yb.err # NilError THEN wrap(yb.err)
                 ELSE IF crv.err # NilError THEN wrap(crv.err)
                 ELSE IF ~Key.onCurve
                      THEN wrap(Errorf("x509: invalid elliptic curve public key"))
                 ELSE pemOf(PublicKeyDER(crv.curve,
                                         <<SetBytes(xb.bytes, 0), SetBytes(yb.bytes, 0)>>))
        ELSE wrap(Errorf("failed to get key. key type currently not supported"))

\* KeyvaultName is the provider's vault name, tokenErr what acquiring the token
\* gave, reply what the vault answered to the request for kvObject
GetKeyVaultObjectContent(KeyvaultName, tokenErr, kvObject, reply) ==
    LET wrap(err) == Failed(wrapObjectTypeError(err, kvObject.ObjectType, kvObject.ObjectName,
                                                 kvObject.ObjectVersion))
    IN  IF getVaultURL(KeyvaultName) # NilError
        THEN Failed(Wrap(getVaultURL(KeyvaultName), "failed to get vault"))
        ELSE IF tokenErr # NilError
        THEN Failed(Wrap(Wrap(tokenErr, "failed to get key vault token"),
                         "failed to get keyvault client"))
        ELSE IF kvObject.ObjectType = VaultObjectTypeSecret
        THEN IF reply.err # NilError THEN wrap(reply.err)
             ELSE IF ~reply.hasValue THEN Failed(Errorf("secret value is nil"))
             ELSE IF ~reply.hasID THEN Failed(Errorf("secret id is nil"))
             ELSE LET content == reply.Value
                      version == getObjectVersion(reply.ID)
                      ok == [content |-> content, version |-> version, err |-> NilError]
                  IN  IF Len(reply.Kid) > 0
                      THEN IF reply.ContentType = certTypePem THEN ok
                           ELSE IF reply.ContentType = certTypePfx
                           THEN IF EqualFold(kvObject.ObjectFormat, objectFormatPFX)
                                THEN ok
                                ELSE LET decoded == decodePKCS12(reply.Value, ConstructPEMChain)
                                     IN  IF decoded.err # NilError
                                         THEN wrap(decoded.err)
                                         ELSE [content |-> PemString(decoded.content),
                                               version |-> version, err |-> NilError]
                           ELSE wrap(Errorf("failed to get certificate. unknown content type"))
                      ELSE ok
        ELSE IF kvObject.ObjectType = VaultObjectTypeKey
        THEN IF reply.err # NilError THEN wrap(reply.err)
             ELSE IF ~reply.hasKey THEN Failed(Errorf("key value is nil"))
             ELSE IF ~reply.hasKid THEN Failed(Errorf("key id is nil"))
             ELSE PublicKeyContent(kvObject, reply)
        ELSE IF kvObject.ObjectType = VaultObjectTypeCertificate
        THEN IF reply.err # NilError THEN wrap(reply.err)
             ELSE IF ~reply.hasCer THEN Failed(Errorf("certificate value is nil"))
             ELSE IF ~reply.hasID THEN Failed(Errorf("certificate id is nil"))
             ELSE [content |-> PemString(EncodeToMemory(
                                   [Type |-> "CERTIFICATE", Headers |-> NoHeaders,
                                    Bytes |-> reply.Cer])),
                   version |-> getObjectVersion(reply.ID), err |-> NilError]
        ELSE wrap(Errorf("Invalid vaultObjectTypes. Should be secret, key, or cert"))

(***************************************************************************)
(* Inputs.                                                                 *)
(***************************************************************************)
SeqsUpTo(S, n) == UNION {[1 .. k -> S] : k \in 0 .. n}

CertBlock(der) == [Type |-> certificateType, Headers |-> NoHeaders, Bytes |-> der]

CertBlocks == {CertBlock(der) : der \in CertDER \cup {BadDER}}

ChainCalls == {[fn |-> "fetchCertChains", data |-> d] : d \in SeqsUpTo(CertBlocks, MaxCerts)}

\* the attributes pkcs12.ToPEM copies into the headers of a block
BagHeaders == {"localKeyId"}

PfxKeyIds == 0 .. MaxPfxKeyId

PfxCertBlocks ==
    {[Type |-> certificateType, Headers |-> BagHeaders, Bytes |-> der] :
        der \in {CertOf(ski, aki) : ski \in PfxKeyIds, aki \in PfxKeyIds} \cup {BadDER}}

PfxKeyBlocks ==
    {[Type |-> "PRIVATE KEY", Headers |-> BagHeaders, Bytes |-> der] :
        der \in {KeyOf("pkcs1", "rsa"), KeyOf("pkcs8", "ed25519"), KeyOf("ec", "ecdsa"),
                 KeyOf("badkey", "none")}}

\* a value that is base64 text, and one that is not
Base64Text == <<"Q", "Q", "=", "=">>

BrokenBase64Text == <<"Q", "=">>

PfxValues ==
    {Text(BrokenBase64Text), Text(Base64Text)}
    \cup {[text |-> Base64Text, pem |-> <<>>, pfx |-> [pkcs12 |-> TRUE, blocks |-> b]] :
              b \in SeqsUpTo(PfxCertBlocks \cup PfxKeyBlocks, MaxBlocks)}

PKCS12Calls == {[fn |-> "decodePKCS12", value |-> v] : v \in PfxValues}

\* the upper-case form of one ASCII character
UpperChar(c) ==
    IF \E i \in 1 .. Len(LowerLetters) : LowerLetters[i] = c
    THEN UpperLetters[CHOOSE i \in 1 .. Len(LowerLetters) : LowerLetters[i] = c]
    ELSE c

RECURSIVE Casings(_)
\* the spellings of the word w in every mix of upper and lower case
Casings(w) ==
    IF w = <<>>
    THEN {<<>>}
    ELSE {<<c>> \o rest : c \in {w[1], UpperChar(w[1])}, rest \in Casings(Tail(w))}

\* the three object types and one the provider does not know
ObjectTypes ==
    {VaultObjectTypeSecret, VaultObjectTypeKey, VaultObjectTypeCertificate,
     <<"b", "l", "o", "b">>}

ObjectFormats ==
    Casings(objectFormatPEM) \cup Casings(objectFormatPFX)
    \cup {<<>>, <<"p", "e">>, <<"p", "f", "x", "x">>, <<"p", "e", "m", " ">>,
          <<"d", "e", "r">>, <<"p", "1", "2">>}

ObjectEncodings ==
    Casings(objectEncodingHex) \cup Casings(objectEncodingBase64)
    \cup Casings(objectEncodingUtf8)
    \cup {<<>>, <<"h", "e">>, <<"u", "t", "f", "8">>, <<"b", "a", "s", "e", "3", "2">>,
          <<"h", "e", "x", " ">>, <<"g", "z", "i", "p">>}

FormatCalls ==
    {[fn |-> "validateObjectFormat", objectFormat |-> f, objectType |-> t] :
        f \in ObjectFormats, t \in ObjectTypes}

EncodingCalls ==
    {[fn |-> "validateObjectEncoding", objectEncoding |-> e, objectType |-> t] :
        e \in ObjectEncodings, t \in ObjectTypes}

ContentCalls ==
    {[fn |-> "getContentBytes", content |-> c, objectType |-> t, objectEncoding |-> e] :
        c \in {Text(chars) : chars \in SeqsUpTo(ContentChars, MaxContentLen)},
        t \in ObjectTypes, e \in ObjectEncodings}

GoodComponent == <<"Q", "Q">>

BrokenComponent == <<"Q">>

KeyReply ==
    [err |-> NilError, hasKey |-> TRUE, hasKid |-> TRUE, Kid |-> <<"k", "/", "3">>,
     Kty |-> "RSA", N |-> GoodComponent, E |-> GoodComponent, X |-> GoodComponent,
     Y |-> GoodComponent, Crv |-> "P-256", onCurve |-> TRUE]

CurveNames == {"P-256", "P-384", "P-521", "SECP256K1"}

\* the key types a vault may name, those of kv.JSONWebKeyType and spellings
\* the switch does not know
KeyTypes == {"RSA", "RSA-HSM", "EC", "EC-HSM", "oct", "oct-HSM", "rsa", ""}

\* the curve names a vault may name, those of kv.JSONWebKeyCurveName and others
AllCurveNames == CurveNames \cup {"P-256K", "p-256", ""}

\* a key object, as the loop hands it to GetKeyVaultObjectContent
KeyObject ==
    [ObjectName |-> <<"b">>, ObjectAlias |-> <<>>, ObjectVersion |-> <<"1">>,
     ObjectType |-> VaultObjectTypeKey, ObjectFormat |-> <<>>, ObjectEncoding |-> <<>>]

KeyCalls ==
    {[fn |-> "GetKeyVaultObjectContent", keyvaultName |-> <<"k", "v", "1">>,
      kvObject |-> KeyObject,
      reply |-> [KeyReply EXCEPT !.Kty = kty, !.Crv = crv, !.N = c[1], !.E = c[2],
                                 !.X = c[3], !.Y = c[4], !.onCurve = on]] :
        kty \in KeyTypes, crv \in AllCurveNames,
        c \in [1 .. 4 -> {GoodComponent, BrokenComponent}], on \in BOOLEAN}

(***************************************************************************)
(* The pure functions of the pipeline, each called once on a chosen input. *)
(***************************************************************************)
\* MountSecretsStoreObjectContent not running
MountIdle ==
    /\ DriverWriteSecrets = TRUE
    /\ pc = "idle"
    /\ objectsLeft = 0
    /\ files = <<>>
    /\ objectVersionMap = <<>>
    /\ written = <<>>
    /\ processed = <<>>

Init ==
    /\ ret = NotReturned
    /\ MountIdle
    /\ \/ call \in ChainCalls /\ ConstructPEMChain = FALSE
       \/ call \in PKCS12Calls /\ ConstructPEMChain \in BOOLEAN
       \/ call \in FormatCalls \cup EncodingCalls \cup ContentCalls /\ ConstructPEMChain = FALSE
       \/ call \in KeyCalls /\ ConstructPEMChain = FALSE

FetchCertChains ==
    /\ call.fn = "fetchCertChains"
    /\ ret = NotReturned
    /\ ret' = [returned |-> TRUE] @@ fetchCertChains(call.data)
    /\ UNCHANGED <<call, flags, mountVars>>

DecodePKCS12 ==
    /\ call.fn = "decodePKCS12"
    /\ ret = NotReturned
    /\ ret' = [returned |-> TRUE] @@ decodePKCS12(call.value, ConstructPEMChain)
    /\ UNCHANGED <<call, flags, mountVars>>

ValidateObjectFormat ==
    /\ call.fn = "validateObjectFormat"
    /\ ret = NotReturned
    /\ ret' = [returned |-> TRUE,
               err |-> validateObjectFormat(call.objectFormat, call.objectType)]
    /\ UNCHANGED <<call, flags, mountVars>>

ValidateObjectEncoding ==
    /\ call.fn = "validateObjectEncoding"
    /\ ret = NotReturned
    /\ ret' = [returned |-> TRUE,
               err |-> validateObjectEncoding(call.objectEncoding, call.objectType)]
    /\ UNCHANGED <<call, flags, mountVars>>

GetContentBytes ==
    /\ call.fn = "getContentBytes"
    /\ ret = NotReturned
    /\ ret' = [returned |-> TRUE]
               @@ getContentBytes(call.content, call.objectType, call.objectEncoding)
    /\ UNCHANGED <<call, flags, mountVars>>

\* GetKeyVaultObjectContent asked for a key, the token granted
GetKeyVaultObjectContentOfKey ==
    /\ call.fn = "GetKeyVaultObjectContent"
    /\ ret = NotReturned
    /\ ret' = [returned |-> TRUE]
               @@ GetKeyVaultObjectContent(call.keyvaultName, NilError, call.kvObject, call.reply)
    /\ UNCHANGED <<call, flags, mountVars>>

(***************************************************************************)
(* MountSecretsStoreObjectContent.  The objects of the request and what   *)
(* the token endpoint, the vault and the file system answer for each are  *)
(* chosen as the loop reaches them.  Of the attributes read before the    *)
(* loop only keyvaultName and objects are modelled.                        *)
(***************************************************************************)
NoObject ==
    [ObjectName |-> <<>>, ObjectAlias |-> <<>>, ObjectVersion |-> <<>>, ObjectType |-> <<>>,
     ObjectFormat |-> <<>>, ObjectEncoding |-> <<>>]

\* the objects a request is made of in this model, their fields trimmed as
\* formatKeyVaultObject leaves them
MountObjects ==
    [ObjectName : {<<>>, <<"a">>, <<"b">>},
     ObjectAlias : {<<>>, <<".", ".">>, <<"/", "c">>, <<"a", ".", ".", "b">>},
     ObjectVersion : {<<"1">>},
     ObjectType : ObjectTypes,
     ObjectFormat : {<<>>, objectFormatPFX, <<"d", "e", "r">>},
     ObjectEncoding : {<<>>, objectEncodingHex, <<"g", "z", "i", "p">>}]

VaultNames == {<<>>, <<"k", "v">>, <<"k", "_", "v">>, <<"k", "v", "1">>}

SecretReply ==
    [err |-> NilError, hasValue |-> TRUE, hasID |-> TRUE, Value |-> Text(<<"4", "4">>),
     ID |-> <<"s", "/", "2">>, Kid |-> <<>>, ContentType |-> ""]

SecretReplies ==
    {[SecretReply EXCEPT !.err = Errorf("keyvault.BaseClient#GetSecret: StatusCode=404")],
     [SecretReply EXCEPT !.hasValue = FALSE],
     [SecretReply EXCEPT !.hasID = FALSE],
     SecretReply,
     [SecretReply EXCEPT !.Value = Text(<<"4", "Q">>)],
     [SecretReply EXCEPT !.Kid = <<"k">>, !.ContentType = certTypePem,
         !.Value = PemString(EncodeToMemory([Type |-> "PRIVATE KEY", Headers |-> NoHeaders,
                                             Bytes |-> KeyOf("pkcs8", "rsa")])
                             \o EncodeToMemory(CertBlock(CertOf(1, 1))))],
     [SecretReply EXCEPT !.Kid = <<"k">>, !.ContentType = certTypePfx,
         !.Value = [text |-> Base64Text, pem |-> <<>>,
                    pfx |-> [pkcs12 |-> TRUE,
                             blocks |-> <<[Type |-> "PRIVATE KEY", Headers |-> BagHeaders,
                                           Bytes |-> KeyOf("pkcs1", "rsa")],
                                          [Type |-> certificateType, Headers |-> BagHeaders,
                                           Bytes |-> CertOf(1, 1)]>>]]],
     [SecretReply EXCEPT !.Kid = <<"k">>, !.ContentType = certTypePfx,
         !.Value = Text(Base64Text)],
     [SecretReply EXCEPT !.Kid = <<"k">>, !.ContentType = "application/octet-stream"]}

KeyReplies ==
    {[KeyReply EXCEPT !.err = Errorf("keyvault.BaseClient#GetKey: StatusCode=404")],
     [KeyReply EXCEPT !.hasKey = FALSE],
     [KeyReply EXCEPT !.hasKid = FALSE]}
    \cup {[KeyReply EXCEPT !.Kty = kty, !.N = c[1], !.E = c[2]] :
             kty \in {"RSA", "RSA-HSM", "oct"},
             c \in {<<GoodComponent, GoodComponent>>, <<BrokenComponent, GoodComponent>>,
                    <<GoodComponent, BrokenComponent>>}}
    \cup {[KeyReply EXCEPT !.Kty = kty, !.Crv = crv, !.X = c[1], !.Y = c[2], !.onCurve = c[3]] :
             kty \in {"EC", "EC-HSM"}, crv \in CurveNames,
             c \in {<<GoodComponent, GoodComponent, TRUE>>,
                    <<BrokenComponent, GoodComponent, TRUE>>,
                    <<GoodComponent, BrokenComponent, TRUE>>,
                    <<GoodComponent, GoodComponent, FALSE>>}}

CertificateReply ==
    [err |-> NilError, hasCer |-> TRUE, hasID |-> TRUE, Cer |-> CertOf(1, 2),
     ID |-> <<"c", "/", "4">>]

CertificateReplies ==
    {[CertificateReply EXCEPT !.err = Errorf("keyvault.BaseClient#GetCertificate: StatusCode=404")],
     [CertificateReply EXCEPT !.hasCer = FALSE],
     [CertificateReply EXCEPT !.hasID = FALSE],
     CertificateReply}

\* what the vault may answer to the request for an object of this type
RepliesTo(objectType) ==
    IF objectType = VaultObjectTypeSecret THEN SecretReplies
    ELSE IF objectType = VaultObjectTypeKey THEN KeyReplies
    ELSE IF objectType = VaultObjectTypeCertificate THEN CertificateReplies
    ELSE {CertificateReply}

\* the token endpoint refuses, or it grants and the vault answers; os.WriteFile
\* fails or not
Environments(objectType) ==
    {[tokenErr |-> Errorf("failed to acquire token"), reply |-> CertificateReply,
      writeErr |-> NilError]}
    \cup {[tokenErr |-> NilError, reply |-> r, writeErr |-> w] :
             r \in RepliesTo(objectType), w \in {NilError, Errorf("permission denied")}}

\* the file name of an object
FileNameOf(keyVaultObject) ==
    IF keyVaultObject.ObjectAlias # <<>>
    THEN keyVaultObject.ObjectAlias
    ELSE keyVaultObject.ObjectName

\* the checks the loop makes on an object before it fetches it
validateObject(keyVaultObject) ==
    LET wrap(err) == wrapObjectTypeError(err, keyVaultObject.ObjectType,
                                         keyVaultObject.ObjectName, keyVaultObject.ObjectVersion)
        formatErr == validateObjectFormat(keyVaultObject.ObjectFormat, keyVaultObject.ObjectType)
        encodingErr == validateObjectEncoding(keyVaultObject.ObjectEncoding,
                                              keyVaultObject.ObjectType)
        fileNameErr == validateFileName(FileNameOf(keyVaultObject))
    IN  IF formatErr # NilError THEN wrap(formatErr)
        ELSE IF encodingErr # NilError THEN wrap(encodingErr)
        ELSE IF fileNameErr # NilError THEN wrap(fileNameErr)
        ELSE NilError

\* the fetch and decoding of one object: its content as bytes, its version, or
\* the error the loop returns and the stage that raised it ("client" when the
\* vault URL or the client could not be made, before the object was asked for)
fetchObject(KeyvaultName, keyVaultObject, env) ==
    LET fetched == GetKeyVaultObjectContent(KeyvaultName, env.tokenErr, keyVaultObject,
                                            env.reply)
        objectContent == getContentBytes(fetched.content, keyVaultObject.ObjectType,
                                         keyVaultObject.ObjectEncoding)
    IN  IF fetched.err # NilError
        THEN [bytes |-> Text(<<>>), version |-> <<>>, err |-> fetched.err,
              stage |-> IF getVaultURL(KeyvaultName) # NilError \/ env.tokenErr # NilError
                        THEN "client"
                        ELSE "fetch"]
        ELSE IF objectContent.err # NilError
        THEN [bytes |-> Text(<<>>), version |-> <<>>, err |-> objectContent.err,
              stage |-> "decode"]
        ELSE [bytes |-> objectContent.bytes, version |-> fetched.version, err |-> NilError,
              stage |-> "done"]

\* MountFails returning the maps as the loop has filled them so far
MountFails_PartialMaps(err, stage, keyVaultObject) ==
    /\ ret' = [returned |-> TRUE, filesNil |-> FALSE, files |-> files,
               objectVersionMapNil |-> FALSE, objectVersionMap |-> objectVersionMap,
               err |-> err, stage |-> stage, object |-> keyVaultObject]
    /\ pc' = "returned"
    /\ objectsLeft' = 0
    /\ files' = files
    /\ objectVersionMap' = objectVersionMap

\* return nil, nil, err; stage and keyVaultObject record where the loop stood
MountFails(err, stage, keyVaultObject) ==
    /\ ret' = [returned |-> TRUE, filesNil |-> TRUE, files |-> <<>>,
               objectVersionMapNil |-> TRUE, objectVersionMap |-> <<>>,
               err |-> err, stage |-> stage, object |-> keyVaultObject]
    /\ pc' = "returned"
    /\ objectsLeft' = 0
    /\ files' = <<>>
    /\ objectVersionMap' = <<>>

\* return files, objectVersionMap, nil
MountSucceeds(newFiles, newObjectVersionMap) ==
    /\ ret' = [returned |-> TRUE, filesNil |-> FALSE, files |-> newFiles,
               objectVersionMapNil |-> FALSE, objectVersionMap |-> newObjectVersionMap,
               err |-> NilError, stage |-> "done", object |-> NoObject]
    /\ pc' = "returned"
    /\ objectsLeft' = 0
    /\ files' = newFiles
    /\ objectVersionMap' = newObjectVersionMap

InitMount ==
    /\ call \in {[fn |-> "MountSecretsStoreObjectContent", keyvaultName |-> v, objects |-> n] :
                    v \in VaultNames, n \in 0 .. MaxObjects}
    /\ ret = NotReturned
    /\ ConstructPEMChain \in BOOLEAN
    /\ DriverWriteSecrets \in BOOLEAN
    /\ pc = "start"
    /\ objectsLeft = 0
    /\ files = <<>>
    /\ objectVersionMap = <<>>
    /\ written = <<>>
    /\ processed = <<>>

\* from the entry to the loop: the attributes are read and the maps made
MountBegin ==
    /\ pc = "start"
    /\ IF call.keyvaultName = <<>>
       THEN MountFails(Errorf("keyvaultName is not set"), "attributes", NoObject)
       ELSE IF call.objects = 0
            THEN MountFails(Errorf("objects array is empty"), "attributes", NoObject)
            ELSE /\ pc' = "loop"
                 /\ objectsLeft' = call.objects
                 /\ files' = <<>>
                 /\ objectVersionMap' = <<>>
                 /\ ret' = ret
    /\ UNCHANGED <<call, flags, written, processed>>

\* the entry of processed for the object at position index of the list:
\* valid when the checks before the fetch passed it, fetched when
\* GetKeyVaultObjectContent was called for it, failed when the loop returned
\* an error at it
Processed(index, keyVaultObject, fetched, failed) ==
    [index |-> index, fileName |-> FileNameOf(keyVaultObject),
     objectUID |-> getObjectUID(keyVaultObject.ObjectName, keyVaultObject.ObjectType),
     valid |-> validateObject(keyVaultObject) = NilError,
     fetched |-> fetched, failed |-> failed]

\* one turn of the loop, and the return after the last one
MountObject ==
    /\ pc = "loop"
    /\ objectsLeft > 0
    /\ \E keyVaultObject \in MountObjects :
         LET index == call.objects - objectsLeft + 1
         IN  IF validateObject(keyVaultObject) # NilError
             THEN /\ MountFails(validateObject(keyVaultObject), "validate", keyVaultObject)
                  /\ written' = written
                  /\ processed' = Append(processed,
                                         Processed(index, keyVaultObject, FALSE, TRUE))
             ELSE \E env \in Environments(keyVaultObject.ObjectType) :
                  \E fetched \in {fetchObject(call.keyvaultName, keyVaultObject, env)} :
                    LET fileName == FileNameOf(keyVaultObject)
                        objectUID == getObjectUID(keyVaultObject.ObjectName,
                                                  keyVaultObject.ObjectType)
                        newObjectVersionMap == (objectUID :> fetched.version) @@ objectVersionMap
                        newFiles == IF DriverWriteSecrets
                                    THEN (fileName :> fetched.bytes) @@ files
                                    ELSE files
                    IN  IF fetched.err # NilError
                        THEN /\ MountFails(fetched.err, fetched.stage, keyVaultObject)
                             /\ written' = written
                             /\ processed' = Append(processed,
                                                    Processed(index, keyVaultObject, TRUE, TRUE))
                        ELSE IF ~DriverWriteSecrets /\ env.writeErr # NilError
                        THEN /\ MountFails(Wrap(env.writeErr, "failed to write file"), "write",
                                           keyVaultObject)
                             /\ written' = written
                             /\ processed' = Append(processed,
                                                    Processed(index, keyVaultObject, TRUE, TRUE))
                        ELSE /\ written' = IF DriverWriteSecrets
                                           THEN written
                                           ELSE (fileName :> fetched.bytes) @@ written
                             /\ processed' = Append(processed,
                                                    Processed(index, keyVaultObject, TRUE, FALSE))
                             /\ IF objectsLeft = 1
                                THEN MountSucceeds(newFiles, newObjectVersionMap)
                                ELSE /\ objectsLeft' = objectsLeft - 1
                                     /\ files' = newFiles
                                     /\ objectVersionMap' = newObjectVersionMap
                                     /\ pc' = pc
                                     /\ ret' = ret
    /\ UNCHANGED <<call, flags>>

NextMount ==
    \/ MountBegin
    \/ MountObject

SpecMount == InitMount /\ [][NextMount]_vars

Next ==
    \/ FetchCertChains
    \/ DecodePKCS12
    \/ ValidateObjectFormat
    \/ ValidateObjectEncoding
    \/ GetContentBytes
    \/ GetKeyVaultObjectContentOfKey

Spec == Init /\ [][Next]_vars

(***************************************************************************)
(* Properties of fetchCertChains and decodePKCS12.                         *)
(***************************************************************************)
ChainReturned == call.fn = "fetchCertChains" /\ ret.returned

PKCS12Returned == call.fn = "decodePKCS12" /\ ret.returned

\* the sequences that hold exactly the elements of the three-element sequence s
OrderingsOf(s) ==
    {<<s[p[1]], s[p[2]], s[p[3]]>> : p \in {q \in [1 .. 3 -> 1 .. 3] : {q[1], q[2], q[3]} = 1 .. 3}}

\* a leaf a issued by b, b issued by c, c a root signed by itself (its
\* authority key identifier its own subject key identifier, or absent)
ThreeChains ==
    {<<CertBlock(CertOf(a, b)), CertBlock(CertOf(b, c)), CertBlock(CertOf(c, r))>> :
        a \in 1 .. MaxKeyId, b \in 1 .. MaxKeyId, c \in 1 .. MaxKeyId, r \in 0 .. MaxKeyId}

IsThreeChain(abc) ==
    /\ abc \in ThreeChains
    /\ Cardinality({abc[1].Bytes.SubjectKeyId, abc[2].Bytes.SubjectKeyId,
                    abc[3].Bytes.SubjectKeyId}) = 3
    /\ abc[3].Bytes.AuthorityKeyId \in {0, abc[3].Bytes.SubjectKeyId}

MutualPair(data) ==
    /\ Len(data) = 2
    /\ data[1].Bytes.kind = "cert" /\ data[2].Bytes.kind = "cert"
    /\ data[1].Bytes.AuthorityKeyId = data[2].Bytes.SubjectKeyId
    /\ data[2].Bytes.AuthorityKeyId = data[1].Bytes.SubjectKeyId

\* C2 as stated: two certificates that name each other as issuer make
\* fetchCertChains fail with "constructing chain resulted in cycle".
C2_MutualPairIsCycle ==
    (ChainReturned /\ MutualPair(call.data)) =>
        ret.err = Errorf("constructing chain resulted in cycle")

\* C2 (amended): two certificates that name each other as issuer make
\* fetchCertChains return, with the error "no leaf found" and no chain; both
\* are marked as parents, so the walk and its cycle guard are never reached.
C2_MutualPairIsNoLeaf ==
    (ChainReturned /\ MutualPair(call.data)) =>
        ret.err = Errorf("no leaf found") /\ ret.data = <<>>

\* two different certificates naming each other have been handed in and refused
C2_Witness ==
    /\ ChainReturned
    /\ call.data = <<CertBlock(CertOf(1, 2)), CertBlock(CertOf(2, 1))>>
    /\ ret.err # NilError

\* one certificate signed by itself
LoneSelfSigned(data) ==
    /\ Len(data) = 1
    /\ data[1].Bytes.kind = "cert"
    /\ data[1].Bytes.AuthorityKeyId \in {0, data[1].Bytes.SubjectKeyId}

\* C3: a single self-signed certificate (authority key identifier equal to
\* its subject key identifier, or absent) comes back as the one-element chain
\* holding it, without an error.
C3_LoneSelfSigned ==
    (ChainReturned /\ LoneSelfSigned(call.data)) =>
        ret.err = NilError /\ ret.data = call.data

\* a lone certificate whose authority key identifier is its own subject key
\* identifier has been returned as the chain
C3_Witness ==
    /\ ChainReturned
    /\ call.data = <<CertBlock(CertOf(2, 2))>>
    /\ ret.data = <<CertBlock(CertOf(2, 2))>>

\* C4: whenever fetchCertChains succeeds, whatever the input (duplicated
\* certificates and linkage cycles included), the chain holds no certificate
\* twice and is no longer than the input.  (The input X, Y, X with X signed
\* by its own key and Y another certificate of that key gives X, X, Y.)
C4_ChainHasNoRepeats ==
    (ChainReturned /\ ret.err = NilError) =>
        /\ Len(ret.data) <= Len(call.data)
        /\ \A p, q \in 1 .. Len(ret.data) : p # q => ret.data[p] # ret.data[q]

\* C5: an error of decodePKCS12 or fetchCertChains comes with empty content:
\* what was converted or walked before the failure is not returned.
C5_NoContentWithError ==
    /\ (ChainReturned /\ ret.err # NilError) => ret.data = <<>>
    /\ (PKCS12Returned /\ ret.err # NilError) => ret.content = <<>>

\* a container whose first block is a good key and whose second is a key no
\* parser accepts has been refused
C5_Witness ==
    /\ PKCS12Returned
    /\ Len(call.value.pfx.blocks) = 2
    /\ call.value.pfx.blocks[1].Bytes = KeyOf("pkcs1", "rsa")
    /\ call.value.pfx.blocks[2].Bytes = KeyOf("badkey", "none")
    /\ ret.err # NilError

\* the key blocks of a container, as decodePKCS12 writes them
ConvertedKey(block) ==
    [Type |-> block.Type, Headers |-> NoHeaders,
     Bytes |-> KeyOf("pkcs8", block.Bytes.key)]

IsCertBlock(block) == block.Type = certificateType

IsKeyBlock(block) == block.Type # certificateType

\* C6: a successful decodePKCS12 returns every key block of the container,
\* in container order, before every certificate block, and with the chain
\* reconstruction off the certificate blocks are in container order too.
C6_KeysThenCertificates ==
    (PKCS12Returned /\ ret.err = NilError) =>
        LET keys == SelectSeq(call.value.pfx.blocks, IsKeyBlock)
            certs == SelectSeq(call.value.pfx.blocks, IsCertBlock)
            k == Len(keys)
        IN  /\ Len(ret.content) >= k
            /\ \A i \in 1 .. k : ret.content[i] = ConvertedKey(keys[i])
            /\ \A i \in k + 1 .. Len(ret.content) : IsCertBlock(ret.content[i])
            /\ ~ConstructPEMChain =>
                   /\ Len(ret.content) = k + Len(certs)
                   /\ \A i \in 1 .. Len(certs) :
                          ret.content[k + i] = [certs[i] EXCEPT !.Headers = NoHeaders]

\* a container holding a certificate, then a key, then another certificate
\* has been converted with the chain reconstruction off
C6_Witness ==
    /\ PKCS12Returned
    /\ ret.err = NilError
    /\ ~ConstructPEMChain
    /\ Len(call.value.pfx.blocks) = 3
    /\ IsCertBlock(call.value.pfx.blocks[1])
    /\ IsKeyBlock(call.value.pfx.blocks[2])
    /\ IsCertBlock(call.value.pfx.blocks[3])
    /\ call.value.pfx.blocks[1] # call.value.pfx.blocks[3]

(***************************************************************************)
(* Properties of the validators and of getContentBytes.                    *)
(***************************************************************************)
\* C7: validateObjectFormat accepts exactly the empty format, "pem" in any
\* letter case, and "pfx" in any letter case for the object type secret;
\* "pfx" in any letter case is refused for every other object type.
C7_FormatAcceptedExactly ==
    (call.fn = "validateObjectFormat" /\ ret.returned) =>
        (ret.err = NilError <=>
            \/ call.objectFormat = <<>>
            \/ call.objectFormat \in Casings(objectFormatPEM)
            \/ /\ call.objectFormat \in Casings(objectFormatPFX)
               /\ call.objectType = VaultObjectTypeSecret)

\* C8: validateObjectEncoding accepts exactly the empty encoding, and for the
\* object type secret "hex", "base64" and "utf-8" in any letter case; every
\* non-empty encoding is refused for the other object types.
C8_EncodingAcceptedExactly ==
    (call.fn = "validateObjectEncoding" /\ ret.returned) =>
        (ret.err = NilError <=>
            \/ call.objectEncoding = <<>>
            \/ /\ call.objectType = VaultObjectTypeSecret
               /\ call.objectEncoding \in Casings(objectEncodingHex)
                      \cup Casings(objectEncodingBase64) \cup Casings(objectEncodingUtf8))

\* "Base64" has been accepted for a secret
C8_Witness ==
    /\ call.fn = "validateObjectEncoding"
    /\ ret.returned
    /\ call.objectEncoding = <<"B", "a", "s", "e", "6", "4">>
    /\ call.objectType = VaultObjectTypeSecret
    /\ ret.err = NilError

\* C9: for an object type other than secret, whatever the encoding, and for a
\* secret with the empty encoding or "utf-8" in any letter case,
\* getContentBytes returns the bytes of the content unchanged and no error.
C9_ContentUntouched ==
    (/\ call.fn = "getContentBytes"
     /\ ret.returned
     /\ \/ call.objectType # VaultObjectTypeSecret
        \/ call.objectEncoding = <<>>
        \/ call.objectEncoding \in Casings(objectEncodingUtf8)) =>
        /\ ret.err = NilError
        /\ Len(ret.bytes.text) = Len(call.content.text)
        /\ \A i \in 1 .. Len(call.content.text) :
               ret.bytes.text[i] = ByteOf(call.content.text[i])

\* a key's content that is no hexadecimal string has been returned as it is
\* although the encoding says hex
C9_Witness ==
    /\ call.fn = "getContentBytes"
    /\ ret.returned
    /\ call.objectType = VaultObjectTypeKey
    /\ call.objectEncoding = objectEncodingHex
    /\ call.content.text = <<"4", "Q", "=">>
    /\ ret.bytes.text = <<52, 81, 61>>

(***************************************************************************)
(* Properties of MountSecretsStoreObjectContent.                           *)
(***************************************************************************)
MountReturned == call.fn = "MountSecretsStoreObjectContent" /\ ret.returned

\* the error names the object: one of its frames is the wrap of
\* wrapObjectTypeError with the object's type, name and version
NamesObject(err, keyVaultObject) ==
    \E k \in 1 .. Len(err) :
        err[k].obj = <<keyVaultObject.ObjectType, keyVaultObject.ObjectName,
                       keyVaultObject.ObjectVersion>>

\* C10: every error the loop returns for a failure in validating, fetching,
\* transforming or decoding an object is wrapped with that object's type,
\* name and version.
C10_ErrorsNameTheObject ==
    (MountReturned /\ ret.err # NilError /\ ret.stage \in {"validate", "fetch", "decode"}) =>
        NamesObject(ret.err, ret.object)

(***************************************************************************)
(* Properties of the key branch of GetKeyVaultObjectContent.               *)
(***************************************************************************)
KeyReturned == call.fn = "GetKeyVaultObjectContent" /\ ret.returned

\* the key type and curve the key branch makes a public key of
SupportedKey(Key) ==
    \/ Key.Kty \in {"RSA", "RSA-HSM"}
    \/ Key.Kty \in {"EC", "EC-HSM"} /\ Key.Crv \in {"P-256", "P-384", "P-521"}

\* the innermost frame of an error
Cause(err) == err[Len(err)].msg

\* the error is the refusal of a key type or of a curve name
UnsupportedKeyType(err) ==
    /\ err # NilError
    /\ Cause(err) \in {"failed to get key. key type currently not supported",
                       "curve is not suppported"}

\* the content is one "PUBLIC KEY" PEM block
IsPublicKeyPEM(content) ==
    /\ Len(content.pem) = 1
    /\ content.pem[1].Type = "PUBLIC KEY"

\* the coordinates of an EC key decode
CoordinatesDecode(Key) ==
    /\ RawURLDecode(Key.X, <<>>).err = NilError
    /\ RawURLDecode(Key.Y, <<>>).err = NilError

\* C11 as stated: a "PUBLIC KEY" block only for RSA, RSA-HSM, or EC, EC-HSM
\* with P-256, P-384 or P-521; every other key type and every other curve
\* name gives an unsupported-key-type error and empty content.
C11_UnsupportedKeyRefused ==
    KeyReturned =>
        /\ (ret.err = NilError /\ ret.content # Text(<<>>)) => SupportedKey(call.reply)
        /\ ~SupportedKey(call.reply) =>
               UnsupportedKeyType(ret.err) /\ ret.content = Text(<<>>)

\* C11 amended: a "PUBLIC KEY" block only for the supported types and curves;
\* every other key type gives an unsupported-key-type error, and so does
\* every other curve name of an EC key whose coordinates decode (a coordinate
\* that does not decode is reported first); the content is empty with every
\* error.
C11_UnsupportedKeyRefusedAfterDecoding ==
    KeyReturned =>
        /\ ret.err = NilError => SupportedKey(call.reply) /\ IsPublicKeyPEM(ret.content)
        /\ ret.err # NilError => ret.content = Text(<<>>)
        /\ call.reply.Kty \notin {"RSA", "RSA-HSM", "EC", "EC-HSM"} =>
               UnsupportedKeyType(ret.err)
        /\ (/\ call.reply.Kty \in {"EC", "EC-HSM"}
            /\ ~SupportedKey(call.reply)
            /\ CoordinatesDecode(call.reply)) => UnsupportedKeyType(ret.err)
        /\ (/\ call.reply.Kty \in {"EC", "EC-HSM"}
            /\ ~CoordinatesDecode(call.reply)) => ~UnsupportedKeyType(ret.err)

\* an EC key on an unknown curve refused for its curve, its coordinates decoded
C11_Witness ==
    /\ KeyReturned
    /\ call.reply.Kty = "EC-HSM"
    /\ call.reply.Crv = "SECP256K1"
    /\ CoordinatesDecode(call.reply)
    /\ UnsupportedKeyType(ret.err)
    /\ ret.content = Text(<<>>)

(***************************************************************************)
(* Properties of the linking, the leaf scan and the walk of               *)
(* fetchCertChains, on the inputs whose certificates all parse.            *)
(***************************************************************************)
\* the call is of fetchCertChains and every block of its data parses
ChainParsed == ChainReturned /\ ParseNodes(call.data, <<>>).err = NilError

\* the nodes as the linking loops leave them
LinkedNodes == LinkOuter(ParseNodes(call.data, <<>>).nodes, 1)

\* the certificate of the i-th block of the data
CertAt(i) == call.data[i].Bytes

\* certificate j carries the key that certificate i names as its issuer's
Issues(j, i) == j # i /\ CertAt(j).SubjectKeyId = CertAt(i).AuthorityKeyId

\* the lowest-index certificate that issues i, 0 when there is none
ExpectedParent(i) ==
    IF \E j \in 1 .. Len(call.data) : Issues(j, i)
    THEN CHOOSE j \in 1 .. Len(call.data) :
             Issues(j, i) /\ \A k \in 1 .. j - 1 : ~Issues(k, i)
    ELSE 0

\* certificate j is the parent of no certificate
NobodysParent(j) == \A i \in 1 .. Len(call.data) : ExpectedParent(i) # j

\* the lowest-index certificate that is the parent of none, 0 when there is none
ExpectedLeaf ==
    IF \E j \in 1 .. Len(call.data) : NobodysParent(j)
    THEN CHOOSE j \in 1 .. Len(call.data) :
             NobodysParent(j) /\ \A k \in 1 .. j - 1 : ~NobodysParent(k)
    ELSE 0

\* C12: after the linking the parent of certificate i is the lowest-index
\* other certificate whose subject key id is i's authority key id, or none;
\* the leaf is the lowest-index certificate that is nobody's parent; and the
\* call fails with "no leaf found" exactly when there is no such certificate.
C12_ParentsAndLeaf ==
    ChainParsed =>
        /\ Len(LinkedNodes) = Len(call.data)
        /\ \A i \in 1 .. Len(call.data) :
               /\ LinkedNodes[i].parent = ExpectedParent(i)
               /\ LinkedNodes[i].isParent = ~NobodysParent(i)
        /\ FindLeaf(LinkedNodes, 1) = ExpectedLeaf
        /\ (ret.err = Errorf("no leaf found")) = (ExpectedLeaf = 0)

\* three certificates, one of them with two candidate parents, the leaf not
\* the first of the input
C12_Witness ==
    /\ ChainParsed
    /\ Len(call.data) = 3
    /\ \E i, j, k \in 1 .. 3 : j < k /\ Issues(j, i) /\ Issues(k, i)
    /\ ExpectedLeaf > 1
    /\ FindLeaf(LinkedNodes, 1) = ExpectedLeaf
    /\ ret.err = NilError

RECURSIVE ParentPath(_, _)
\* the certificates met from i along the parent links, followed for at most
\* steps links
ParentPath(i, steps) ==
    IF i = 0 \/ steps = 0
    THEN <<>>
    ELSE <<i>> \o ParentPath(ExpectedParent(i), steps - 1)

\* the parent chain from the leaf comes to some certificate a second time
WalkRevisits ==
    LET path == ParentPath(ExpectedLeaf, Len(call.data) + 1)
    IN  \E a, b \in 1 .. Len(path) : a < b /\ path[a] = path[b]

\* the walk fetchCertChains makes from the leaf it chose
WalkFromLeaf == Walk(LinkedNodes, FindLeaf(LinkedNodes, 1), 0, <<>>)

\* C13: when a leaf is found the walk stops after at most n + 1 nodes, and it
\* fails with "constructing chain resulted in cycle" exactly when the parent
\* chain from the leaf comes to some certificate of the input a second time;
\* a cycle the leaf does not lead to changes nothing.
C13_WalkStopsAndCycleIffRevisit ==
    (ChainParsed /\ ExpectedLeaf # 0) =>
        /\ WalkFromLeaf.processedNodes <= Len(call.data) + 1
        /\ WalkFromLeaf.cycle = WalkRevisits
        /\ (ret.err = Errorf("constructing chain resulted in cycle")) = WalkRevisits
        /\ ~WalkRevisits =>
               /\ ret.err = NilError
               /\ Len(ret.data) = Len(ParentPath(ExpectedLeaf, Len(call.data)))

\* a leaf whose parent chain runs into a cycle of two: the walk stops at the
\* fourth node of three
C13_Witness ==
    /\ ChainParsed
    /\ Len(call.data) = 3
    /\ ExpectedLeaf # 0
    /\ WalkRevisits
    /\ WalkFromLeaf.processedNodes = 4
    /\ ret.err = Errorf("constructing chain resulted in cycle")

\* a leaf beside a cycle of two it does not lead to: the call succeeds
C13_CycleAside ==
    /\ ChainParsed
    /\ Len(call.data) = 3
    /\ ExpectedLeaf # 0
    /\ \E a, b \in 1 .. 3 : a # b /\ ExpectedParent(a) = b /\ ExpectedParent(b) = a
    /\ ~WalkRevisits
    /\ ret.err = NilError

(***************************************************************************)
(* Properties of the loop of MountSecretsStoreObjectContent.               *)
(***************************************************************************)
\* the name is not empty, is a relative path and holds no ".."
SafeFileName(name) ==
    /\ Len(name) > 0
    /\ name[1] # "/"
    /\ \A k \in 1 .. Len(name) - 1 : ~(name[k] = "." /\ name[k + 1] = ".")

\* C14: every file name under which content is returned or written (the
\* alias when set, the name otherwise) is non-empty, relative and free of
\* ".."; an object whose file name is not is rejected with an error, and
\* GetKeyVaultObjectContent is not called for it.
C14_FileNamesAreSafe ==
    /\ \A name \in DOMAIN files \cup DOMAIN written : SafeFileName(name)
    /\ MountReturned => \A name \in DOMAIN ret.files : SafeFileName(name)
    /\ \A k \in 1 .. Len(processed) :
           ~SafeFileName(processed[k].fileName) =>
               /\ ~processed[k].fetched
               /\ processed[k].failed
               /\ MountReturned
               /\ ret.err # NilError
               /\ ret.stage = "validate"

\* a second object refused for its file name after a first one was written
C14_Witness ==
    /\ MountReturned
    /\ Len(processed) = 2
    /\ processed[1].fetched /\ ~processed[1].failed
    /\ processed[2].fileName = <<"a", ".", ".", "b">>
    /\ ~processed[2].fetched
    /\ ret.stage = "validate"
    /\ ret.err # NilError

\* C15: the loop takes the objects in list order, one at a time, and calls
\* GetKeyVaultObjectContent only for an object its checks passed; it returns
\* at the first object that fails, with nil for both maps, so no later
\* object is fetched; and when it returns no error every object of the list
\* was fetched and has its entry: its UID in the version map, and its file
\* name in the files map (or, with DriverWriteSecrets off, among the files
\* written).
C15_InOrderAllOrNothing ==
    /\ Len(processed) <= call.objects
    /\ \A k \in 1 .. Len(processed) :
           /\ processed[k].index = k
           /\ processed[k].fetched => processed[k].valid
           /\ ~processed[k].valid => processed[k].failed
           /\ processed[k].failed => (k = Len(processed) /\ MountReturned /\ ret.err # NilError)
    /\ pc = "loop" => Len(processed) = call.objects - objectsLeft
    /\ (MountReturned /\ ret.err # NilError) =>
           /\ ret.filesNil /\ ret.objectVersionMapNil
           /\ ret.files = <<>> /\ ret.objectVersionMap = <<>>
           /\ ret.stage # "attributes" =>
                  (Len(processed) > 0 /\ processed[Len(processed)].failed)
    /\ (MountReturned /\ ret.err = NilError) =>
           /\ ~ret.filesNil /\ ~ret.objectVersionMapNil
           /\ call.objects > 0
           /\ Len(processed) = call.objects
           /\ \A k \in 1 .. Len(processed) :
                  /\ processed[k].fetched /\ ~processed[k].failed
                  /\ processed[k].objectUID \in DOMAIN ret.objectVersionMap
                  /\ IF DriverWriteSecrets
                     THEN processed[k].fileName \in DOMAIN ret.files
                     ELSE processed[k].fileName \in DOMAIN written

\* the second of two objects fails in its fetch after the first was fetched:
\* both maps come back nil
C15_Witness ==
    /\ MountReturned
    /\ call.objects = 2
    /\ Len(processed) = 2
    /\ processed[1].fetched /\ ~processed[1].failed
    /\ processed[2].fetched /\ processed[2].failed
    /\ ret.err # NilError
    /\ ret.filesNil /\ ret.objectVersionMapNil

\* two objects mounted under two file names
C15_AllMounted ==
    /\ MountReturned
    /\ ret.err = NilError
    /\ Len(processed) = 2
    /\ processed[1].fileName # processed[2].fileName
    /\ DOMAIN ret.files = {processed[1].fileName, processed[2].fileName}

====
